---- MODULE Spec2Model ----
(***************************************************************************)
(* Covered-call stop-loss calculator (src/app.py): one run of the script,   *)
(* from the fetched price history to the chart pass.                       *)
(*                                                                         *)
(* Prices are exact rationals [k |-> "num", n, d]; the floating-point      *)
(* values nan / inf that numpy division yields and Python's None are the   *)
(* other kinds of value.  A power with a non-trivial exponent is kept      *)
(* symbolic ([k |-> "pow", ...]).                                          *)
(***************************************************************************)
EXTENDS Integers, Sequences, FiniteSets, TLC

VARIABLES
    pc,                         \* position in the script
    fault,                      \* "none", or the exception that ended the script
    shown,                      \* the st.error / st.warning messages displayed
    max_loss_pct, atr_multiplier, weeks_of_history, strike_pct,   \* sliders
    hist,                       \* the fetched bars
    groups,                     \* hist.groupby('Week'), once the Week column exists
    true_range, atr,
    entry_price, stop_loss_price, stop_loss_drawdown_pct,
    weekly_drawdowns, max_weekly_drawdown_pct,
    expirations, calls,         \* provider's option data
    valid_expirations, otm_calls, bid_price, strike_price_opt,
    total_premium, annualized_return,
    wk,                         \* number of week groups already iterated by the current loop
    weekly_stop_loss, capital, weekly_returns, cumulative_return,
    annualized_stock_return, annualized_combined_return,
    green_weeks, red_weeks, colors

vars == <<pc, fault, shown, max_loss_pct, atr_multiplier, weeks_of_history, strike_pct,
          hist, true_range, atr, entry_price, stop_loss_price, stop_loss_drawdown_pct,
          groups, weekly_drawdowns, max_weekly_drawdown_pct, expirations, calls,
          valid_expirations, otm_calls, bid_price, strike_price_opt,
          total_premium, annualized_return, wk, weekly_stop_loss, capital,
          weekly_returns, cumulative_return, annualized_stock_return,
          annualized_combined_return, green_weeks, red_weeks, colors>>

--------------------------------------------------------------------------
(* Numbers *)

RECURSIVE GCD(_, _)
GCD(a, b) == IF b = 0 THEN a ELSE GCD(b, a % b)

Abs(x) == IF x < 0 THEN -x ELSE x

NaN == [k |-> "nan", n |-> 0, d |-> 1]
None == [k |-> "none", n |-> 0, d |-> 1]
Undefined == [k |-> "undefined", n |-> 0, d |-> 1]
Inf(s) == [k |-> "inf", n |-> s, d |-> 1]

\* the rational a/b in lowest terms, b # 0
Rat(a, b) ==
    LET g == GCD(Abs(a), Abs(b))
        s == IF b < 0 THEN -1 ELSE 1
    IN  [k |-> "num", n |-> (s * a) \div g, d |-> (s * b) \div g]

Int2R(i) == [k |-> "num", n |-> i, d |-> 1]
Zero == Int2R(0)
One == Int2R(1)

IsNum(x) == x.k = "num"

RAdd(x, y) == Rat(x.n * y.d + y.n * x.d, x.d * y.d)
RNeg(x) == [k |-> "num", n |-> -x.n, d |-> x.d]
RSub(x, y) == RAdd(x, RNeg(y))
RMul(x, y) ==
    LET g1 == GCD(Abs(x.n), y.d)
        g2 == GCD(Abs(y.n), x.d)
    IN  Rat((x.n \div g1) * (y.n \div g2), (x.d \div g2) * (y.d \div g1))
RLt(x, y) == x.n * y.d < y.n * x.d
RLe(x, y) == x.n * y.d <= y.n * x.d
RMax(x, y) == IF RLt(x, y) THEN y ELSE x
RMin(x, y) == IF RLt(y, x) THEN y ELSE x

\* numpy float64 division: x/0 is nan or +-inf (a warning, no exception)
FDiv(x, y) ==
    IF ~IsNum(x) \/ ~IsNum(y) THEN NaN
    ELSE IF y.n = 0 THEN (IF x.n = 0 THEN NaN ELSE Inf(IF x.n < 0 THEN -1 ELSE 1))
    ELSE RMul(x, [k |-> "num", n |-> (IF y.n < 0 THEN -y.d ELSE y.d), d |-> Abs(y.n)])

FMul(x, y) == IF IsNum(x) /\ IsNum(y) THEN RMul(x, y) ELSE x

\* b ** e for b > 0: exact when e = 1 or b = 1, symbolic otherwise
Pow(b, e) ==
    IF e = One \/ b = One THEN b
    ELSE [k |-> "pow", n |-> b.n, d |-> b.d, en |-> e.n, ed |-> e.d]

\* b ** e - 1
PowMinus1(b, e) ==
    LET p == Pow(b, e)
    IN  IF IsNum(p) THEN RSub(p, One)
        ELSE [k |-> "pow-1", n |-> p.n, d |-> p.d, en |-> p.en, ed |-> p.ed]

--------------------------------------------------------------------------
(* Inputs *)

ATR_WINDOW == 14
MIN_HISTORY == 14
MIN_DAYS_OUT == 5
WEEKS_PER_YEAR == 52
DAYS_PER_WEEK == 5

MaxBars == 15               \* longest fetched history
MinBars == MIN_HISTORY - 1

MaxLossPcts == {5, 10, 20}              \* slider 5..20 (percent)
AtrMultipliers == {1, 2}                \* slider 1..3
StrikePcts == {0, 2, 5}                 \* slider 0.0..5.0 (percent)
WeeksOfHistory == {4, 52}               \* slider 4..52
EntryPrices == {0, 10, 12}

B(o, h, l, c) == [Open |-> o, High |-> h, Low |-> l, Close |-> c]

\* price patterns, repeated cyclically along the history
Patterns == {
    << B(10,11,10,11), B(11,12,10,10), B(10,10,9,9), B(9,10,9,10),
       B(10,12,10,12), B(12,12,11,11), B(11,11,10,10) >>,
    << B(10,10,8,8), B(8,9,8,9), B(9,11,9,11), B(12,12,10,10),
       B(10,10,9,9), B(9,10,8,8), B(8,10,8,10) >>,
    << B(11,12,11,12), B(12,12,10,10), B(10,10,9,9) >>,
    << B(10,10,10,10) >> }

StartDows == {0, 4}         \* weekday of the first bar (0 = Monday)
Strides == {"daily", "weekly"}

\* calendar day of the t-th bar (t = 0, 1, ...); day 0 is a Monday
DateOf(t, s, stride) ==
    IF stride = "daily"
    THEN ((s + t) \div DAYS_PER_WEEK) * 7 + ((s + t) % DAYS_PER_WEEK)
    ELSE 7 * t + s

MkHist(n, s, stride, pat) ==
    [i \in 1..n |->
        LET b == pat[((i - 1) % Len(pat)) + 1]
        IN  [Date |-> DateOf(i - 1, s, stride), Open |-> b.Open, High |-> b.High,
             Low |-> b.Low, Close |-> b.Close]]

\* days until each listed expiration, in the provider's (chronological) order
ExpirationLists == { << >>, <<1, 4>>, <<2, 9, 16>> }

C(s, b) == [strike |-> s, bid |-> b]
\* a name the script has not assigned yet / a DataFrame of option rows
Unbound == [defined |-> FALSE, rows |-> << >>]
Frame(rows) == [defined |-> TRUE, rows |-> rows]

CallChains == { << C(11, 1), C(9, 3), C(13, 0), C(10, 2) >>, << C(8, 3), C(9, 2) >>, << >> }

--------------------------------------------------------------------------
(* ATR: lines 73-80 *)

Max2(a, b) == IF a < b THEN b ELSE a

\* faulty variant: the range to the previous close is ignored
TrueRangeAt_HighLowOnly(h, i) == h[i].High - h[i].Low

\* ranges.max(axis=1): the row maximum skips the NaN that Close.shift() leaves
\* in the first row, so the first bar's value is its High - Low
TrueRangeAt(h, i) ==
    LET high_low == h[i].High - h[i].Low
    IN  IF i = 1 THEN high_low
        ELSE Max2(high_low, Max2(Abs(h[i].High - h[i - 1].Close),
                                 Abs(h[i].Low - h[i - 1].Close)))

TrueRange(h) == [i \in 1..Len(h) |-> TrueRangeAt(h, i)]

RECURSIVE SumFrom(_, _)
SumFrom(s, i) == IF i > Len(s) THEN 0 ELSE s[i] + SumFrom(s, i + 1)

\* true_range.rolling(window=14).mean().iloc[-1]
RollingMeanLast(tr) ==
    IF Len(tr) < ATR_WINDOW THEN NaN
    ELSE Rat(SumFrom(tr, Len(tr) - ATR_WINDOW + 1), ATR_WINDOW)

--------------------------------------------------------------------------
(* Stop-loss levels *)

Pct(p) == Rat(p, 100)

\* lines 83-85
BaselineStopLoss(entry, a, m, mlp) ==
    LET stop_loss_atr == RSub(entry, RMul(Int2R(m), a))
        stop_loss_max == RMul(entry, RSub(One, mlp))
    IN  RMax(stop_loss_atr, stop_loss_max)

\* faulty variant: the stop never drops below the previous week's stop
WeeklyStopLoss_Ratchet(monday_price, a, m, mlp) ==
    LET fresh == RMax(RSub(monday_price, RMul(Int2R(m), a)),
                      RMul(monday_price, RSub(One, mlp)))
    IN  IF IsNum(weekly_stop_loss) THEN RMax(weekly_stop_loss, fresh) ELSE fresh

\* faulty variant: the lower of the two floors
WeeklyStopLoss_Min(monday_price, a, m, mlp) ==
    RMin(RSub(monday_price, RMul(Int2R(m), a)), RMul(monday_price, RSub(One, mlp)))

\* lines 156-158
WeeklyStopLoss(monday_price, a, m, mlp) ==
    LET weekly_stop_loss_atr == RSub(monday_price, RMul(Int2R(m), a))
        weekly_stop_loss_max == RMul(monday_price, RSub(One, mlp))
    IN  RMax(weekly_stop_loss_atr, weekly_stop_loss_max)

\* lines 256-258
ChartStopLoss(monday_open, a, m, mlp) ==
    LET weekly_stop_loss_atr == RSub(monday_open, RMul(Int2R(m), a))
        weekly_stop_loss_max == RMul(monday_open, RSub(One, mlp))
    IN  RMax(weekly_stop_loss_atr, weekly_stop_loss_max)

--------------------------------------------------------------------------
(* Weekly partition: hist['Date'].dt.to_period('W'), groupby('Week') *)

WeekOf(date) == date \div 7

RECURSIVE SortedSeq(_)
SortedSeq(S) ==
    IF S = {} THEN << >>
    ELSE LET m == CHOOSE x \in S : \A y \in S : x <= y
         IN  <<m>> \o SortedSeq(S \ {m})

InWeek(h, w) == SelectSeq(h, LAMBDA b : WeekOf(b.Date) = w)

GroupByWeek(h) ==
    LET keys == SortedSeq({WeekOf(h[i].Date) : i \in 1..Len(h)})
    IN  [j \in 1..Len(keys) |-> [week |-> keys[j], group |-> InWeek(h, keys[j])]]

\* lines 99-101: min over the week of (Close - cummax(Close)) / cummax(Close)
RECURSIVE MinDrawdownFrom(_, _, _)
MinDrawdownFrom(g, i, high) ==
    IF i > Len(g) THEN Zero
    ELSE LET hi == Max2(high, g[i].Close)
             dd == Rat(g[i].Close - hi, hi)
         IN  RMin(dd, MinDrawdownFrom(g, i + 1, hi))

RECURSIVE MinOfSeq(_, _)
MinOfSeq(s, i) == IF i = Len(s) THEN s[i] ELSE RMin(s[i], MinOfSeq(s, i + 1))

--------------------------------------------------------------------------
(* Option selection: lines 109-134 *)

ValidExpirations(exps) == SelectSeq(exps, LAMBDA days : days >= MIN_DAYS_OUT)

\* calls[calls['strike'] >= target_strike_price]
OtmCalls(chain, target) == SelectSeq(chain, LAMBDA c : RLe(target, Int2R(c.strike)))

\* sort_values('strike').iloc[0]
LowestStrike(chain) ==
    chain[CHOOSE i \in 1..Len(chain) :
            \A j \in 1..Len(chain) :
                chain[i].strike < chain[j].strike \/ (chain[i].strike = chain[j].strike /\ i <= j)]

\* sort_values('strike').iloc[-1]
HighestStrike(chain) ==
    chain[CHOOSE i \in 1..Len(chain) :
            \A j \in 1..Len(chain) :
                chain[i].strike > chain[j].strike \/ (chain[i].strike = chain[j].strike /\ i >= j)]

--------------------------------------------------------------------------
(* One week of the simulation pass: lines 153-184 *)

\* group[group['Close'] <= weekly_stop_loss]
StopLossHit(group, stop) == SelectSeq(group, LAMBDA b : RLe(Int2R(b.Close), stop))

\* faulty variant: a stop-loss exit sells at the triggering close
SellPrice_AtTriggerClose(group, stop, strike_price_week) ==
    IF StopLossHit(group, stop) # << >> THEN Int2R(StopLossHit(group, stop)[1].Close)
    ELSE RMin(Int2R(group[Len(group)].Close), strike_price_week)

\* lines 164-169
SellPrice(group, stop, strike_price_week) ==
    IF StopLossHit(group, stop) # << >> THEN stop
    ELSE RMin(Int2R(group[Len(group)].Close), strike_price_week)

ExitReason(group, stop) ==
    IF StopLossHit(group, stop) # << >>
    THEN [text |-> "Stop-loss hit on", date |-> StopLossHit(group, stop)[1].Date]
    ELSE [text |-> "Held to Friday or capped", date |-> -1]

\* line 171
WeeklyReturn(sell_price, monday_price) == FDiv(RSub(sell_price, monday_price), monday_price)

\* faulty variant: returns are added, not compounded
Compound_Additive(cap, weekly_return) == RAdd(cap, weekly_return)

\* line 173
Compound(cap, weekly_return) == RMul(cap, RAdd(One, weekly_return))

Outcome(g, cap, a, m, mlp, sp) ==
    LET group == g.group
        monday_price == Int2R(group[1].Open)
        friday_price == Int2R(group[Len(group)].Close)
        stop == WeeklyStopLoss(monday_price, a, m, mlp)
        strike_price_week == RMul(monday_price, RAdd(One, sp))
        sell_price == SellPrice(group, stop, strike_price_week)
        weekly_return == WeeklyReturn(sell_price, monday_price)
    IN  [week |-> g.week,
         monday_price |-> monday_price,
         friday_price |-> friday_price,
         sell_price |-> sell_price,
         weekly_return_pct |-> RMul(weekly_return, Int2R(100)),
         weekly_dollar_return |-> RMul(cap, weekly_return),
         capital_after_week |-> Compound(cap, weekly_return),
         exit_reason |-> ExitReason(group, stop)]

\* line 150
TooShort(group) == Len(group) < 2

--------------------------------------------------------------------------
(* Aggregates: lines 207-226 *)

\* faulty variant: no substitute for zero years
Years_Unguarded(num_weeks) == Rat(num_weeks, WEEKS_PER_YEAR)

\* line 216
Years(num_weeks) == IF num_weeks > 0 THEN Rat(num_weeks, WEEKS_PER_YEAR) ELSE One

AnnualizedStockReturn(cap, years) ==
    IF RLt(Zero, cap) /\ RLt(Zero, years)
    THEN PowMinus1(cap, FDiv(One, years))
    ELSE Zero

AnnualizedCombinedReturn(cap, entry, premium, years) ==
    LET final_capital_value == RMul(cap, entry)
        combined_capital_value == RAdd(final_capital_value, premium)
    IN  IF RLt(Zero, combined_capital_value) /\ RLt(Zero, entry) /\ RLt(Zero, years)
        THEN PowMinus1(FDiv(combined_capital_value, entry), FDiv(One, years))
        ELSE Zero

\* line 143
AnnualizedPremium(premium, entry, weeks) ==
    IF entry # Zero
    THEN RMul(RMul(FDiv(premium, entry), Rat(WEEKS_PER_YEAR, weeks)), Int2R(100))
    ELSE Zero

--------------------------------------------------------------------------
(* Chart pass: lines 246-277 *)

\* (group['Close'] < weekly_stop_loss).any()
StopLossTriggered(group, stop) == \E i \in 1..Len(group) : RLt(Int2R(group[i].Close), stop)

ChartColor(group, a, m, mlp) ==
    LET monday_open == Int2R(group[1].Open)
        friday_close == Int2R(group[Len(group)].Close)
        stop == ChartStopLoss(monday_open, a, m, mlp)
        weekly_return_pct == RMul(FDiv(RSub(friday_close, monday_open), monday_open), Int2R(100))
    IN  IF StopLossTriggered(group, stop) THEN "red"
        ELSE IF RLe(Zero, weekly_return_pct) THEN "green"
        ELSE "orange"

--------------------------------------------------------------------------
(* The script *)

\* faulty variant: the threshold is one bar short
NotEnoughHistory_OffByOne(h) == Len(h) < MIN_HISTORY - 1

\* line 66
NotEnoughHistory(h) == Len(h) < MIN_HISTORY

\* period=f"{days_of_history}d": at most weeks*5 daily bars, all within that window
Fetchable(h, weeks) ==
    /\ Len(h) <= weeks * DAYS_PER_WEEK
    /\ h[Len(h)].Date - h[1].Date < weeks * 7

\* lines 55-64: the sliders are read and the history is fetched
Init ==
    /\ max_loss_pct \in {Pct(p) : p \in MaxLossPcts}
    /\ atr_multiplier \in AtrMultipliers
    /\ weeks_of_history \in WeeksOfHistory
    /\ strike_pct \in {Pct(p) : p \in StrikePcts}
    /\ \E n \in MinBars..MaxBars, s \in StartDows, stride \in Strides, pat \in Patterns :
          /\ hist = MkHist(n, s, stride, pat)
          /\ Fetchable(hist, weeks_of_history)
    /\ pc = "start"
    /\ fault = "none"
    /\ shown = {}
    /\ true_range = << >>
    /\ atr = Undefined
    /\ entry_price = Undefined
    /\ stop_loss_price = Undefined
    /\ stop_loss_drawdown_pct = Undefined
    /\ groups = << >>
    /\ weekly_drawdowns = << >>
    /\ max_weekly_drawdown_pct = Undefined
    /\ expirations = << >>
    /\ calls = Unbound
    /\ valid_expirations = << >>
    /\ otm_calls = Unbound
    /\ bid_price = Undefined
    /\ strike_price_opt = Undefined
    /\ total_premium = Undefined
    /\ annualized_return = Undefined
    /\ wk = 0
    /\ weekly_stop_loss = Undefined
    /\ capital = Undefined
    /\ weekly_returns = << >>
    /\ cumulative_return = Undefined
    /\ annualized_stock_return = Undefined
    /\ annualized_combined_return = Undefined
    /\ green_weeks = 0
    /\ red_weeks = 0
    /\ colors = << >>

configVars == <<max_loss_pct, atr_multiplier, weeks_of_history, strike_pct, hist>>
atrVars == <<true_range, atr>>
baselineVars == <<entry_price, stop_loss_price, stop_loss_drawdown_pct>>
drawdownVars == <<groups, weekly_drawdowns, max_weekly_drawdown_pct>>
optionVars == <<expirations, calls, valid_expirations, otm_calls, bid_price, strike_price_opt>>
premiumVars == <<total_premium, annualized_return>>
simVars == <<weekly_stop_loss, capital, weekly_returns>>
aggVars == <<cumulative_return, annualized_stock_return, annualized_combined_return>>
chartVars == <<green_weeks, red_weeks, colors>>

\* lines 66-70
InsufficientHistory ==
    /\ pc = "start"
    /\ NotEnoughHistory(hist)
    /\ shown' = shown \cup {"Not enough historical data"}
    /\ pc' = "done"
    /\ UNCHANGED <<fault, wk, configVars, atrVars, baselineVars, drawdownVars, optionVars,
                   premiumVars, simVars, aggVars, chartVars>>

\* lines 71-80
ComputeATR ==
    /\ pc = "start"
    /\ ~NotEnoughHistory(hist)
    /\ true_range' = TrueRange(hist)
    /\ atr' = RollingMeanLast(true_range')
    /\ pc' = "baseline"
    /\ UNCHANGED <<fault, shown, wk, configVars, baselineVars, drawdownVars, optionVars,
                   premiumVars, simVars, aggVars, chartVars>>

\* lines 82-87: the latest close is fetched, the baseline stop derived from it
Baseline ==
    /\ pc = "baseline"
    /\ \E e \in EntryPrices : entry_price' = Int2R(e)
    /\ stop_loss_price' = BaselineStopLoss(entry_price', atr, atr_multiplier, max_loss_pct)
    /\ stop_loss_drawdown_pct' =
          FMul(FDiv(RSub(stop_loss_price', entry_price'), entry_price'), Int2R(100))
    /\ pc' = "drawdown"
    /\ UNCHANGED <<fault, shown, wk, configVars, atrVars, drawdownVars, optionVars,
                   premiumVars, simVars, aggVars, chartVars>>

\* lines 89-104
Drawdowns ==
    /\ pc = "drawdown"
    /\ groups' = GroupByWeek(hist)
    /\ weekly_drawdowns' = [j \in 1..Len(groups') |-> MinDrawdownFrom(groups'[j].group, 1, 0)]
    /\ max_weekly_drawdown_pct' = RMul(MinOfSeq(weekly_drawdowns', 1), Int2R(100))
    /\ pc' = "options"
    /\ UNCHANGED <<fault, shown, wk, configVars, atrVars, baselineVars, optionVars,
                   premiumVars, simVars, aggVars, chartVars>>

\* lines 107-114: no expiration is far enough out
NoEligibleExpiration ==
    /\ pc = "options"
    /\ \E exps \in ExpirationLists :
          /\ expirations' = exps
          /\ valid_expirations' = ValidExpirations(exps)
    /\ valid_expirations' = << >>
    /\ shown' = shown \cup {"No expiration dates at least 5 days out available!"}
    /\ bid_price' = Zero
    /\ strike_price_opt' = None
    /\ pc' = "select"
    /\ UNCHANGED <<fault, wk, calls, otm_calls, configVars, atrVars, baselineVars,
                   drawdownVars, premiumVars, simVars, aggVars, chartVars>>

\* lines 107-123: the chain of the nearest eligible expiration is fetched and filtered
FetchChain ==
    /\ pc = "options"
    /\ \E exps \in ExpirationLists :
          /\ expirations' = exps
          /\ valid_expirations' = ValidExpirations(exps)
    /\ valid_expirations' # << >>
    /\ \E chain \in CallChains : calls' = Frame(chain)
    /\ otm_calls' = Frame(OtmCalls(calls'.rows, RMul(entry_price, RAdd(One, strike_pct))))
    /\ pc' = "select"
    /\ UNCHANGED <<fault, shown, wk, bid_price, strike_price_opt, configVars, atrVars,
                   baselineVars, drawdownVars, premiumVars, simVars, aggVars, chartVars>>

\* line 125 reads otm_calls, which only the else branch of line 115 assigns
SelectNameError ==
    /\ pc = "select"
    /\ ~otm_calls.defined
    /\ fault' = "NameError"
    /\ pc' = "crashed"
    /\ UNCHANGED <<shown, wk, configVars, atrVars, baselineVars, drawdownVars, optionVars,
                   premiumVars, simVars, aggVars, chartVars>>

\* lines 125-129
SelectOtm ==
    /\ pc = "select"
    /\ otm_calls.defined
    /\ otm_calls.rows # << >>
    /\ strike_price_opt' = Int2R(LowestStrike(otm_calls.rows).strike)
    /\ bid_price' = Int2R(LowestStrike(otm_calls.rows).bid)
    /\ pc' = "premium"
    /\ UNCHANGED <<fault, shown, wk, expirations, calls, valid_expirations, otm_calls,
                   configVars, atrVars, baselineVars, drawdownVars, premiumVars, simVars,
                   aggVars, chartVars>>

\* lines 130-139
SelectFallback ==
    /\ pc = "select"
    /\ otm_calls.defined
    /\ otm_calls.rows = << >>
    /\ calls.rows # << >>
    /\ strike_price_opt' = Int2R(HighestStrike(calls.rows).strike)
    /\ bid_price' = Int2R(HighestStrike(calls.rows).bid)
    /\ shown' = shown \cup {"No OTM call found above target"}
    /\ pc' = "premium"
    /\ UNCHANGED <<fault, wk, expirations, calls, valid_expirations, otm_calls,
                   configVars, atrVars, baselineVars, drawdownVars, premiumVars, simVars,
                   aggVars, chartVars>>

\* line 132 on an empty chain: iloc[-1] is out of bounds
SelectIndexError ==
    /\ pc = "select"
    /\ otm_calls.defined
    /\ otm_calls.rows = << >>
    /\ calls.rows = << >>
    /\ fault' = "IndexError"
    /\ pc' = "crashed"
    /\ UNCHANGED <<shown, wk, configVars, atrVars, baselineVars, drawdownVars, optionVars,
                   premiumVars, simVars, aggVars, chartVars>>

\* lines 142-147
Premium ==
    /\ pc = "premium"
    /\ total_premium' = RMul(bid_price, Int2R(weeks_of_history))
    /\ annualized_return' = AnnualizedPremium(total_premium', entry_price, weeks_of_history)
    /\ capital' = One
    /\ weekly_returns' = << >>
    /\ wk' = 0
    /\ pc' = "weeks"
    /\ UNCHANGED <<fault, shown, weekly_stop_loss, configVars, atrVars, baselineVars,
                   drawdownVars, optionVars, aggVars, chartVars>>

\* lines 149-151
SkipWeek ==
    /\ pc = "weeks"
    /\ wk < Len(groups)
    /\ TooShort(groups[wk + 1].group)
    /\ wk' = wk + 1
    /\ UNCHANGED <<pc, fault, shown, configVars, atrVars, baselineVars, drawdownVars,
                   optionVars, premiumVars, simVars, aggVars, chartVars>>

\* lines 149-184
SimulateWeek ==
    /\ pc = "weeks"
    /\ wk < Len(groups)
    /\ ~TooShort(groups[wk + 1].group)
    /\ LET o == Outcome(groups[wk + 1], capital, atr, atr_multiplier, max_loss_pct, strike_pct)
       IN  /\ weekly_stop_loss' = WeeklyStopLoss(o.monday_price, atr, atr_multiplier, max_loss_pct)
           /\ capital' = o.capital_after_week
           /\ weekly_returns' = Append(weekly_returns, o)
    /\ wk' = wk + 1
    /\ UNCHANGED <<pc, fault, shown, configVars, atrVars, baselineVars, drawdownVars,
                   optionVars, premiumVars, aggVars, chartVars>>

\* lines 186-229, 243-244
Aggregate ==
    /\ pc = "weeks"
    /\ wk = Len(groups)
    /\ cumulative_return' = RSub(capital, One)
    /\ LET years == Years(Len(weekly_returns))
       IN  /\ annualized_stock_return' = AnnualizedStockReturn(capital, years)
           /\ annualized_combined_return' =
                 AnnualizedCombinedReturn(capital, entry_price, total_premium, years)
    /\ green_weeks' = 0
    /\ red_weeks' = 0
    /\ colors' = << >>
    /\ wk' = 0
    /\ pc' = "chart"
    /\ UNCHANGED <<fault, shown, configVars, atrVars, baselineVars, drawdownVars,
                   optionVars, premiumVars, simVars>>

\* lines 246-248
ChartSkipWeek ==
    /\ pc = "chart"
    /\ wk < Len(groups)
    /\ TooShort(groups[wk + 1].group)
    /\ wk' = wk + 1
    /\ UNCHANGED <<pc, fault, shown, configVars, atrVars, baselineVars, drawdownVars,
                   optionVars, premiumVars, simVars, aggVars, chartVars>>

\* lines 246-283
ChartWeek ==
    /\ pc = "chart"
    /\ wk < Len(groups)
    /\ ~TooShort(groups[wk + 1].group)
    /\ LET color == ChartColor(groups[wk + 1].group, atr, atr_multiplier, max_loss_pct)
       IN  /\ colors' = Append(colors, [week |-> groups[wk + 1].week, color |-> color])
           /\ red_weeks' = red_weeks + (IF color = "red" THEN 1 ELSE 0)
           /\ green_weeks' = green_weeks + (IF color = "green" THEN 1 ELSE 0)
    /\ wk' = wk + 1
    /\ UNCHANGED <<pc, fault, shown, configVars, atrVars, baselineVars, drawdownVars,
                   optionVars, premiumVars, simVars, aggVars>>

\* line 315
Finish ==
    /\ pc = "chart"
    /\ wk = Len(groups)
    /\ pc' = "done"
    /\ UNCHANGED <<fault, shown, wk, configVars, atrVars, baselineVars, drawdownVars,
                   optionVars, premiumVars, simVars, aggVars, chartVars>>

Next ==
    \/ InsufficientHistory
    \/ ComputeATR
    \/ Baseline
    \/ Drawdowns
    \/ NoEligibleExpiration
    \/ FetchChain
    \/ SelectNameError
    \/ SelectOtm
    \/ SelectFallback
    \/ SelectIndexError
    \/ Premium
    \/ SkipWeek
    \/ SimulateWeek
    \/ Aggregate
    \/ ChartSkipWeek
    \/ ChartWeek
    \/ Finish

Spec == Init /\ [][Next]_vars

--------------------------------------------------------------------------
(* Properties *)

\* the simulation pass has started / the aggregates have been computed
Aggregated == pc = "chart" \/ (pc = "done" /\ Len(hist) >= 14)
Simulating == pc = "weeks" \/ Aggregated

GroupOfWeek(w) == (CHOOSE j \in 1..Len(groups) : groups[j].week = w)

\* the higher of the ATR floor and the percentage floor under a Monday open
HigherFloor(monday) ==
    LET atr_floor == RSub(monday, RMul(Int2R(atr_multiplier), atr))
        pct_floor == RMul(monday, RSub(One, max_loss_pct))
    IN  IF RLe(pct_floor, atr_floor) THEN atr_floor ELSE pct_floor

HitDates(g, stop) == {g[i].Date : i \in {i \in 1..Len(g) : RLe(Int2R(g[i].Close), stop)}}

\* C1: every outcome sells at the stop level on the first bar closing at or
\* below it, else at min(Friday close, Monday open * (1 + strike_pct)), and its
\* return is (sell - Monday open) / Monday open.
C1_ExitRule ==
    \A j \in 1..Len(weekly_returns) :
        LET o == weekly_returns[j]
            g == groups[GroupOfWeek(o.week)].group
            monday == Int2R(g[1].Open)
            friday == Int2R(g[Len(g)].Close)
            stop == HigherFloor(monday)
            cap == RMul(monday, RAdd(One, strike_pct))
            hits == HitDates(g, stop)
        IN  /\ Len(g) >= 2
            /\ o.monday_price = monday
            /\ o.friday_price = friday
            /\ hits # {} =>
                  /\ o.sell_price = stop
                  /\ o.exit_reason.text = "Stop-loss hit on"
                  /\ o.exit_reason.date \in hits
                  /\ \A d \in hits : o.exit_reason.date <= d
            /\ hits = {} =>
                  /\ o.sell_price = (IF RLe(friday, cap) THEN friday ELSE cap)
                  /\ o.exit_reason.text = "Held to Friday or capped"
            /\ RMul(o.weekly_return_pct, monday) = RMul(Int2R(100), RSub(o.sell_price, monday))

\* a stop-loss week whose trigger closed strictly below the stop, with a later
\* bar at or below the stop too, and a held week sold at the cap
C1_Witness ==
    /\ \E j \in 1..Len(weekly_returns) :
          LET o == weekly_returns[j]
              g == groups[GroupOfWeek(o.week)].group
          IN  /\ o.exit_reason.text = "Stop-loss hit on"
              /\ \E i \in 1..Len(g) :
                    /\ g[i].Date = o.exit_reason.date
                    /\ RLt(Int2R(g[i].Close), o.sell_price)
              /\ \E i \in 1..Len(g) :
                    /\ g[i].Date > o.exit_reason.date
                    /\ RLe(Int2R(g[i].Close), o.sell_price)
    /\ \E j \in 1..Len(weekly_returns) :
          LET o == weekly_returns[j]
          IN  /\ o.exit_reason.text = "Held to Friday or capped"
              /\ RLt(o.sell_price, o.friday_price)

\* C2: the stop level of the week just simulated is the higher of that week's
\* own two floors, whatever the earlier weeks' stops and the baseline stop were.
C2_FreshStop ==
    (pc = "weeks" /\ wk >= 1 /\ Len(groups[wk].group) >= 2) =>
        /\ weekly_stop_loss = HigherFloor(Int2R(groups[wk].group[1].Open))
        /\ weekly_returns[Len(weekly_returns)].exit_reason.text = "Stop-loss hit on" =>
              weekly_returns[Len(weekly_returns)].sell_price =
                  HigherFloor(Int2R(groups[wk].group[1].Open))

\* two simulated weeks in a row, the later with the lower stop, which also
\* differs from the baseline stop
C2_Witness ==
    /\ pc = "weeks"
    /\ wk >= 2
    /\ Len(groups[wk].group) >= 2
    /\ Len(groups[wk - 1].group) >= 2
    /\ RLt(weekly_stop_loss, HigherFloor(Int2R(groups[wk - 1].group[1].Open)))
    /\ weekly_stop_loss # stop_loss_price
    /\ RLt(RMul(Int2R(groups[wk].group[1].Open), RSub(One, max_loss_pct)), weekly_stop_loss)

EligibleUpTo(k) == {j \in 1..k : Len(groups[j].group) >= 2}

RECURSIVE FactorProduct(_, _)
FactorProduct(outs, k) ==
    IF k = 0 THEN One
    ELSE RMul(FactorProduct(outs, k - 1),
              RAdd(One, RMul(outs[k].weekly_return_pct, Rat(1, 100))))

\* C3: capital is 1 before the first week and afterwards the left-to-right
\* product of (1 + weekly return) over exactly the weeks with two or more bars
\* iterated so far; each outcome stores the capital of its moment, and the
\* cumulative return is capital - 1.
C3_Compounding ==
    /\ (pc = "weeks" /\ wk = 0) => capital = One
    /\ pc = "weeks" =>
          /\ Len(weekly_returns) = Cardinality(EligibleUpTo(wk))
          /\ \A j \in 1..Len(weekly_returns) :
                Len(groups[GroupOfWeek(weekly_returns[j].week)].group) >= 2
    /\ Simulating =>
          /\ capital = FactorProduct(weekly_returns, Len(weekly_returns))
          /\ \A j \in 1..Len(weekly_returns) :
                /\ weekly_returns[j].capital_after_week = FactorProduct(weekly_returns, j)
                /\ j > 1 => weekly_returns[j - 1].week < weekly_returns[j].week
    /\ Aggregated =>
          /\ Len(weekly_returns) = Cardinality(EligibleUpTo(Len(groups)))
          /\ cumulative_return = RSub(capital, One)

\* a run that skipped a one-bar week, simulated two weeks with non-zero
\* returns and reached the aggregates
C3_Witness ==
    /\ Aggregated
    /\ Len(weekly_returns) >= 2
    /\ Len(weekly_returns) < Len(groups)
    /\ weekly_returns[1].weekly_return_pct # Zero
    /\ weekly_returns[2].weekly_return_pct # Zero
    /\ capital # One

Untouched ==
    /\ true_range = << >>
    /\ atr = Undefined
    /\ entry_price = Undefined
    /\ stop_loss_price = Undefined
    /\ stop_loss_drawdown_pct = Undefined
    /\ groups = << >>
    /\ weekly_drawdowns = << >>
    /\ max_weekly_drawdown_pct = Undefined
    /\ ~calls.defined
    /\ ~otm_calls.defined
    /\ bid_price = Undefined
    /\ strike_price_opt = Undefined
    /\ total_premium = Undefined
    /\ annualized_return = Undefined
    /\ weekly_stop_loss = Undefined
    /\ capital = Undefined
    /\ weekly_returns = << >>
    /\ cumulative_return = Undefined
    /\ annualized_stock_return = Undefined
    /\ annualized_combined_return = Undefined
    /\ colors = << >>

\* C5: with fewer than 14 bars the run only reports the shortfall and computes
\* nothing; with 14 or more it is not refused and the ATR is computed.
C5_InsufficientHistory ==
    /\ Len(hist) < 14 =>
          /\ Untouched
          /\ pc \in {"start", "done"}
          /\ pc = "done" => shown = {"Not enough historical data"}
    /\ Len(hist) >= 14 =>
          /\ "Not enough historical data" \notin shown
          /\ pc # "start" => IsNum(atr)

\* a 13-bar history after the script has ended
C5_Witness == Len(hist) = 13 /\ pc = "done" /\ shown # {}

\* C9: every weekly return lies in [-max_loss_pct, strike_pct], a stop-loss
\* week's in [-max_loss_pct, 0], a held week's above -max_loss_pct; capital
\* stays strictly positive.
C9_ReturnBounds ==
    /\ \A j \in 1..Len(weekly_returns) :
          LET o == weekly_returns[j]
              lo == RMul(Int2R(-100), max_loss_pct)
              hi == RMul(Int2R(100), strike_pct)
          IN  /\ RLe(lo, o.weekly_return_pct)
              /\ RLe(o.weekly_return_pct, hi)
              /\ o.exit_reason.text = "Stop-loss hit on" => RLe(o.weekly_return_pct, Zero)
              /\ o.exit_reason.text = "Held to Friday or capped" => RLt(lo, o.weekly_return_pct)
              /\ RLt(Zero, o.capital_after_week)
    /\ Simulating => RLt(Zero, capital)

\* a run with a week lost at exactly -max_loss_pct and a week gained at exactly
\* strike_pct > 0
C9_Witness ==
    /\ \E j \in 1..Len(weekly_returns) :
          /\ weekly_returns[j].exit_reason.text = "Stop-loss hit on"
          /\ weekly_returns[j].weekly_return_pct = RMul(Int2R(-100), max_loss_pct)
    /\ \E j \in 1..Len(weekly_returns) :
          /\ weekly_returns[j].exit_reason.text = "Held to Friday or capped"
          /\ weekly_returns[j].weekly_return_pct = RMul(Int2R(100), strike_pct)
          /\ RLt(Zero, strike_pct)

\* C4: when no expiration is at least 5 days out, the premium figures are
\* zero/absent and the run goes on to the simulation without a fault.
C4_NoEligibleExpirationProceeds ==
    "No expiration dates at least 5 days out available!" \in shown =>
        /\ bid_price = Zero
        /\ strike_price_opt = None
        /\ fault = "none"
        /\ pc # "crashed"

\* C6: with an entry price of zero or less, the baseline stop-loss drawdown
\* percentage, the annualized premium yield and the annualized combined return
\* are all 0; with capital of zero or less the annualized stock return is 0.
C6_DivisionGuards ==
    /\ (IsNum(entry_price) /\ RLe(entry_price, Zero)) =>
          /\ stop_loss_drawdown_pct = Zero
          /\ IsNum(total_premium) => annualized_return = Zero
          /\ Aggregated => annualized_combined_return = Zero
    /\ (Aggregated /\ RLe(capital, Zero)) => annualized_stock_return = Zero

NoSimulatedWeek == Aggregated /\ Len(weekly_returns) = 0

\* C7 as claimed: with no simulated week all three return figures are 0,
\* whatever the total premium, for every positive entry price.
C7_ZeroReturns ==
    (NoSimulatedWeek /\ RLt(Zero, entry_price)) =>
        /\ cumulative_return = Zero
        /\ annualized_stock_return = Zero
        /\ annualized_combined_return = Zero

\* C7 amended: with no simulated week, years is 1, the cumulative and the
\* annualized stock return are 0, and the annualized combined return is
\* total premium / entry price (0 exactly when the total premium is 0).
C7_ZeroWeeks ==
    (NoSimulatedWeek /\ RLt(Zero, entry_price)) =>
        /\ capital = One
        /\ cumulative_return = Zero
        /\ annualized_stock_return = Zero
        /\ IsNum(annualized_combined_return)
        /\ RMul(annualized_combined_return, entry_price) = total_premium
        /\ annualized_combined_return = Zero <=> total_premium = Zero

\* no simulated week, a positive entry price and a positive total premium
C7_Witness ==
    /\ NoSimulatedWeek
    /\ RLt(Zero, entry_price)
    /\ RLt(Zero, total_premium)
    /\ Len(groups) >= 14

\* the true range the claim gives a bar after the first
PrevCloseRange(i) ==
    LET a == hist[i].High - hist[i].Low
        b == Abs(hist[i].High - hist[i - 1].Close)
        c == Abs(hist[i].Low - hist[i - 1].Close)
    IN  IF a >= b /\ a >= c THEN a ELSE IF b >= c THEN b ELSE c

RECURSIVE SumOver(_, _, _)
SumOver(F(_), lo, hi) == IF lo > hi THEN 0 ELSE F(lo) + SumOver(F, lo + 1, hi)

ExcludingFirst(i) == IF i = 1 THEN 0 ELSE PrevCloseRange(i)
IncludingFirst(i) == IF i = 1 THEN hist[1].High - hist[1].Low ELSE PrevCloseRange(i)

\* C8 as claimed: the ATR is the mean of the true ranges of the last 14 bars,
\* to which the first bar of the series contributes nothing.
C8_FirstBarExcluded ==
    IsNum(atr) =>
        /\ RMul(atr, Int2R(14)) = Int2R(SumOver(ExcludingFirst, Len(hist) - 13, Len(hist)))
        /\ RLe(Zero, atr)

\* C8 amended: the ATR is the mean of the true ranges of the last 14 bars, where
\* the first bar of the series has true range high - low (it is in the window
\* exactly when the series has 14 bars) and every later bar
\* max(high - low, |high - prevClose|, |low - prevClose|); the ATR is >= 0.
C8_TrailingMean ==
    IsNum(atr) =>
        /\ Len(hist) >= 14
        /\ Len(true_range) = Len(hist)
        /\ \A i \in 1..Len(hist) : true_range[i] = IncludingFirst(i)
        /\ RMul(atr, Int2R(14)) = Int2R(SumOver(IncludingFirst, Len(hist) - 13, Len(hist)))
        /\ Len(hist) >= 15 =>
              RMul(atr, Int2R(14)) = Int2R(SumOver(PrevCloseRange, Len(hist) - 13, Len(hist)))
        /\ RLe(Zero, atr)

\* a 14-bar history whose first bar has a positive range and where some bar's
\* range to the previous close exceeds its high - low
C8_Witness ==
    /\ IsNum(atr)
    /\ Len(hist) = 14
    /\ hist[1].High - hist[1].Low > 0
    /\ \E i \in 2..Len(hist) : true_range[i] > hist[i].High - hist[i].Low

StopExits == {j \in 1..Len(weekly_returns) :
                weekly_returns[j].exit_reason.text = "Stop-loss hit on"}

\* C10: the chart pass colours a week red exactly when the simulation pass
\* recorded a stop-loss exit for it, so red_weeks counts the stop-loss outcomes.
C10_RedIffStopLoss ==
    /\ \A j \in 1..Len(colors) :
          /\ colors[j].week = weekly_returns[j].week
          /\ colors[j].color = "red" <=> j \in StopExits
    /\ pc = "done" /\ Len(hist) >= 14 => red_weeks = Cardinality(StopExits)

====
